---- MODULE Spec2Model ----
(***************************************************************************)
(* A model of galax / galdynamix:                                          *)
(*   - MockStreamGenerator.run and its two particle-integration            *)
(*     strategies (_run_scan, _run_vmap);                                  *)
(*   - CompositePotential and its composition operators;                   *)
(*   - the potential parameters (ConstantParameter, LinearParameter);      *)
(*   - the length of a composite phase-space position.                     *)
(* Times are integers in units of 1e-3 (the size of the final-time bump),  *)
(* a phase-space state w is a pair <<q, p>> of small integers, and array   *)
(* index k of the source is index k+1 of a sequence here.                  *)
(***************************************************************************)
EXTENDS Integers, Sequences, FiniteSets, TLC

VARIABLES
    \* ---- MockStreamGenerator.run: the object and the call's arguments
    df_lead, df_trail,      \* self.df.lead, self.df.trail
    vmapped,                \* "True" | "False" | "None"
    platform,               \* get_backend().platform
    ts_in,                  \* the time grid as supplied by the caller
    prog_kind,              \* "timed" | "untimed" | "raw"
    prog_ndim,              \* batch rank of prog_w0
    prog_t,                 \* the time carried by a timed prog_w0
    \* ---- MockStreamGenerator.run: locals
    pc, err,
    use_vmap, w0_t, ts, prog_o,
    mock0_lead, mock0_trail,
    carry, scan_k, reads,
    lead_arm_w, trail_arm_w, starts, t_end,
    strategy,               \* the strategies executed so far, in order
    stream, ret_orbit,
    sample_calls,           \* the orbit handed to df.sample, per invocation
    \* ---- CompositePotential
    potA, potB, result, lastop, used,
    \* ---- parameters: the object, the last operation on it, its argument
    \* and what it returned
    par, par_op, par_arg, par_res,
    \* ---- composite phase-space position: the object, the last operation
    \* on it and what it returned
    cpsp, psp_op, psp_arg, psp_res,
    rot_omega, rot_q, rot_t, rot_stage, rot_fwd, rot_back, rot_inv2

msvars == <<df_lead, df_trail, vmapped, platform, ts_in, prog_kind, prog_ndim,
            prog_t, pc, err, use_vmap, w0_t, ts, prog_o, mock0_lead,
            mock0_trail, carry, scan_k, reads, lead_arm_w, trail_arm_w,
            starts, t_end, strategy, stream, ret_orbit, sample_calls>>
potvars == <<potA, potB, result, lastop, used>>
parvars == <<par, par_op, par_arg, par_res>>
pspvars == <<cpsp, psp_op, psp_arg, psp_res>>
rotvars == <<rot_omega, rot_q, rot_t, rot_stage, rot_fwd, rot_back, rot_inv2>>
vars == <<msvars, potvars, parvars, pspvars, rotvars>>

(***************************************************************************)
(* Bounds of the model.                                                    *)
(***************************************************************************)
MaxN == 3          \* longest time grid (number of stripping times)
MaxTime == 2       \* grid times are drawn from 0..MaxTime
QMod == 4          \* positions live in 0..QMod-1

Eps == 1           \* the 1e-3 bump of the final time, in units of 1e-3

Times == 0..MaxTime
Grids == UNION {[1..n -> Times] : n \in 2..MaxN}
ProgW == <<0, 1>>  \* the progenitor's phase-space state <<q, p>>

Reverse(s) == [k \in 1..Len(s) |-> s[Len(s) + 1 - k]]
Min2(a, b) == IF a < b THEN a ELSE b
Max2(a, b) == IF a > b THEN a ELSE b

\* array[i] on a traced array: an out-of-bounds index is clamped.
Idx(arr, i) == arr[Min2(Max2(i, 0), Len(arr) - 1) + 1]

NonDecreasing(s) == \A k \in 1..(Len(s) - 1) : s[k] <= s[k + 1]
NonIncreasing(s) == \A k \in 1..(Len(s) - 1) : s[k] >= s[k + 1]
StrictlyIncreasing(s) == \A k \in 1..(Len(s) - 1) : s[k] < s[k + 1]
StrictlyDecreasing(s) == \A k \in 1..(Len(s) - 1) : s[k] > s[k + 1]
IsMonotonic(s) == NonDecreasing(s) \/ NonIncreasing(s)

(***************************************************************************)
(* Collaborators of the generator that live outside the source at hand.    *)
(***************************************************************************)
\* utils.cond_reverse(pred, x)
cond_reverse(pred, x) == IF pred THEN Reverse(x) ELSE x

\* utils.interleave_concat(a, b, axis): a[0], b[0], a[1], b[1], ...
interleave_concat(a, b) ==
    [k \in 1..(2 * Len(a)) |-> IF k % 2 = 1 THEN a[(k + 1) \div 2] ELSE b[k \div 2]]

\* The flow of the equations of motion from time t0 to time t1: a
\* deterministic function of the initial state and the window.
Flow(w, t0, t1) == <<(w[1] + w[2] * (t1 - t0)) % QMod, w[2]>>

\* integrate_orbit(potential, ics, tstep, integrator).w()[-1]
integrate_orbit(w, tstep) == Flow(w, tstep[1], tstep[2])

\* A variant of GridAccepted that checks nothing.
GridAcceptedAny(t) == TRUE

\* The integrator's check of its time grid.
GridAccepted(t) == IsMonotonic(t)

\* evaluate_orbit(potential, w0, ts, integrator): the state at every ts[k].
evaluate_orbit(w, t0, t) == [k \in 1..Len(t) |-> Flow(w, t0, t[k])]

\* df.sample: the particles released along the progenitor orbit, one per
\* stripping time and arm, displaced from the progenitor by dq, each
\* carrying a release time that is one of the stripping times.
ReleaseTimes(t) == {t, [k \in 1..Len(t) |-> t[1]]}
Displacements == {1, 2}
Released(orbit, dq, rel) ==
    [w |-> [k \in 1..Len(orbit) |-> <<(orbit[k][1] + dq) % QMod, orbit[k][2]>>],
     release_time |-> rel]

NoMock == [w |-> <<>>, release_time |-> <<>>]
NoStream == [q |-> <<>>, p |-> <<>>, t |-> <<>>, release_time |-> <<>>]
NoCarry == [i |-> -1, w_l |-> <<>>, w_t |-> <<>>]

(***************************************************************************)
(* MockStreamGenerator.run, stage by stage.                                *)
(***************************************************************************)
\* A variant of ParseUseVmap that looks at the backend only.
ParseUseVmapBackendOnly(v, plat) == plat = "gpu"

\* use_vmap = get_backend().platform == "gpu" if vmapped is None else vmapped
ParseUseVmap(v, plat) == IF v = "None" THEN plat = "gpu" ELSE v = "True"

\* The isinstance chain of run: which forms of prog_w0 are checked for a
\* scalar batch rank.
RankChecked(kind) == kind \in {"timed", "untimed"}

\* A variant of ProgenitorTime that reads the grid after its orientation.
ProgenitorTimeOriented(kind, pt, t) ==
    IF kind = "timed" THEN pt ELSE cond_reverse(t[2] < t[1], t)[1]

\* The time attached to the progenitor state.
ProgenitorTime(kind, pt, t) == IF kind = "timed" THEN pt ELSE t[1]

\* A variant of OrientGrid that also reverses on equal leading times.
OrientGridNonStrict(t) == cond_reverse(t[2] <= t[1], t)

\* ts = cond_reverse(ts[1] < ts[0], ts)
OrientGrid(t) == cond_reverse(t[2] < t[1], t)

\* t_f = ts[-1] + 1e-3
FinalTime(t) == t[Len(t)] + Eps

\* A variant of ScanTstep that starts at the next stripping time.
ScanTstepNext(t, i) == <<Idx(t, i + 1), t[Len(t)] + Eps>>

\* tstep = xp.asarray([ts[i], t_f])
ScanTstep(t, i) == <<Idx(t, i), FinalTime(t)>>
VmapTstep(t, i) == <<Idx(t, i), FinalTime(t)>>

Parse ==
    /\ pc = "start"
    /\ use_vmap' = ParseUseVmap(vmapped, platform)
    /\ pc' = "parsed"
    /\ UNCHANGED <<sample_calls, df_lead, df_trail, vmapped, platform, ts_in, prog_kind,
                   prog_ndim, prog_t, err, w0_t, ts, prog_o, mock0_lead,
                   mock0_trail, carry, scan_k, reads, lead_arm_w, trail_arm_w,
                   starts, t_end, strategy, stream, ret_orbit>>

Normalize ==
    /\ pc = "parsed"
    /\ IF RankChecked(prog_kind) /\ prog_ndim > 0
       THEN /\ pc' = "error"
            /\ err' = "prog_w0 must be scalar"
            /\ UNCHANGED w0_t
       ELSE /\ pc' = "normalized"
            /\ w0_t' = ProgenitorTime(prog_kind, prog_t, ts)
            /\ UNCHANGED err
    /\ UNCHANGED <<sample_calls, df_lead, df_trail, vmapped, platform, ts_in, prog_kind,
                   prog_ndim, prog_t, use_vmap, ts, prog_o, mock0_lead,
                   mock0_trail, carry, scan_k, reads, lead_arm_w, trail_arm_w,
                   starts, t_end, strategy, stream, ret_orbit>>

Orient ==
    /\ pc = "normalized"
    /\ ts' = OrientGrid(ts)
    /\ pc' = "oriented"
    /\ UNCHANGED <<sample_calls, df_lead, df_trail, vmapped, platform, ts_in, prog_kind,
                   prog_ndim, prog_t, err, use_vmap, w0_t, prog_o, mock0_lead,
                   mock0_trail, carry, scan_k, reads, lead_arm_w, trail_arm_w,
                   starts, t_end, strategy, stream, ret_orbit>>

IntegrateProgenitor ==
    /\ pc = "oriented"
    /\ IF GridAccepted(ts)
       THEN /\ prog_o' = evaluate_orbit(ProgW, w0_t, ts)
            /\ pc' = "progenitor"
            /\ UNCHANGED err
       ELSE /\ pc' = "error"
            /\ err' = "InvalidTimeGrid"
            /\ UNCHANGED prog_o
    /\ UNCHANGED <<sample_calls, df_lead, df_trail, vmapped, platform, ts_in, prog_kind,
                   prog_ndim, prog_t, use_vmap, w0_t, ts, mock0_lead,
                   mock0_trail, carry, scan_k, reads, lead_arm_w, trail_arm_w,
                   starts, t_end, strategy, stream, ret_orbit>>

\* A variant of Sample that invokes df.sample a second time.
SampleTwice ==
    /\ pc = "progenitor"
    /\ \E dl \in Displacements, rl \in ReleaseTimes(ts), rt \in ReleaseTimes(ts) :
          /\ mock0_lead' = Released(prog_o, dl, rl)
          /\ mock0_trail' = Released(prog_o, QMod - dl, rt)
    /\ sample_calls' = Append(Append(sample_calls, prog_o), prog_o)
    /\ pc' = "sampled"
    /\ UNCHANGED <<df_lead, df_trail, vmapped, platform, ts_in, prog_kind,
                   prog_ndim, prog_t, err, use_vmap, w0_t, ts, prog_o,
                   carry, scan_k, reads, lead_arm_w, trail_arm_w,
                   starts, t_end, strategy, stream, ret_orbit>>

\* mock0_lead, mock0_trail = self.df.sample(self.potential, prog_o, ...)
Sample ==
    /\ pc = "progenitor"
    /\ \E dl \in Displacements, rl \in ReleaseTimes(ts), rt \in ReleaseTimes(ts) :
          /\ mock0_lead' = Released(prog_o, dl, rl)
          /\ mock0_trail' = Released(prog_o, QMod - dl, rt)
    /\ sample_calls' = Append(sample_calls, prog_o)
    /\ pc' = "sampled"
    /\ UNCHANGED <<df_lead, df_trail, vmapped, platform, ts_in, prog_kind,
                   prog_ndim, prog_t, err, use_vmap, w0_t, ts, prog_o,
                   carry, scan_k, reads, lead_arm_w, trail_arm_w,
                   starts, t_end, strategy, stream, ret_orbit>>

\* _run_scan: carry_init = (0, w0_lead[0, :], w0_trail[0, :])
ScanInit ==
    /\ pc = "sampled"
    /\ ~use_vmap
    /\ carry' = [i |-> 0, w_l |-> Idx(mock0_lead.w, 0), w_t |-> Idx(mock0_trail.w, 0)]
    /\ reads' = {0}
    /\ scan_k' = 0
    /\ lead_arm_w' = <<>>
    /\ trail_arm_w' = <<>>
    /\ starts' = <<>>
    /\ t_end' = FinalTime(ts)
    /\ strategy' = Append(strategy, "scan")
    /\ pc' = "scan"
    /\ UNCHANGED <<sample_calls, df_lead, df_trail, vmapped, platform, ts_in, prog_kind,
                   prog_ndim, prog_t, err, use_vmap, w0_t, ts, prog_o,
                   mock0_lead, mock0_trail, stream, ret_orbit>>

\* _run_scan.one_pt_intg, applied by jax.lax.scan to pt_ids[scan_k]
ScanStep ==
    /\ pc = "scan"
    /\ scan_k < Len(mock0_lead.w)
    /\ LET i == carry.i
           tstep == ScanTstep(ts, i)
       IN /\ lead_arm_w' = Append(lead_arm_w, integrate_orbit(carry.w_l, tstep))
          /\ trail_arm_w' = Append(trail_arm_w, integrate_orbit(carry.w_t, tstep))
          /\ starts' = Append(starts, tstep[1])
          /\ carry' = [i |-> i + 1,
                       w_l |-> Idx(mock0_lead.w, i + 1),
                       w_t |-> Idx(mock0_trail.w, i + 1)]
          /\ reads' = reads \cup {i + 1}
    /\ scan_k' = scan_k + 1
    /\ UNCHANGED <<sample_calls, df_lead, df_trail, vmapped, platform, ts_in, prog_kind,
                   prog_ndim, prog_t, pc, err, use_vmap, w0_t, ts, prog_o,
                   mock0_lead, mock0_trail, t_end, strategy, stream, ret_orbit>>

\* jax.lax.scan(...)[1]: the stacked outputs, once pt_ids is exhausted
ScanReturn ==
    /\ pc = "scan"
    /\ scan_k = Len(mock0_lead.w)
    /\ pc' = "integrated"
    /\ UNCHANGED <<sample_calls, df_lead, df_trail, vmapped, platform, ts_in, prog_kind,
                   prog_ndim, prog_t, err, use_vmap, w0_t, ts, prog_o,
                   mock0_lead, mock0_trail, carry, scan_k, reads, lead_arm_w,
                   trail_arm_w, starts, t_end, strategy, stream, ret_orbit>>

\* _run_vmap: jax.vmap(one_pt_intg)(pt_ids, w0_lead, w0_trail)
VmapArm(t, w0) == [k \in 1..Len(w0) |-> integrate_orbit(w0[k], VmapTstep(t, k - 1))]

RunVmap ==
    /\ pc = "sampled"
    /\ use_vmap
    /\ lead_arm_w' = VmapArm(ts, mock0_lead.w)
    /\ trail_arm_w' = VmapArm(ts, mock0_trail.w)
    /\ starts' = [k \in 1..Len(mock0_lead.w) |-> VmapTstep(ts, k - 1)[1]]
    /\ reads' = 0..(Len(mock0_lead.w) - 1)
    /\ t_end' = FinalTime(ts)
    /\ strategy' = Append(strategy, "vmap")
    /\ pc' = "integrated"
    /\ UNCHANGED <<sample_calls, df_lead, df_trail, vmapped, platform, ts_in, prog_kind,
                   prog_ndim, prog_t, err, use_vmap, w0_t, ts, prog_o,
                   mock0_lead, mock0_trail, carry, scan_k, stream, ret_orbit>>

\* A variant of ArmSelection whose last branch returns the trailing arm.
ArmSelectionNoRaise(lead, trail) ==
    IF lead /\ trail THEN "both" ELSE IF lead THEN "lead" ELSE "trail"

\* The if / elif / elif / else chain over df.lead and df.trail.
ArmSelection(lead, trail) ==
    IF lead /\ trail THEN "both"
    ELSE IF lead THEN "lead"
    ELSE IF trail THEN "trail"
    ELSE "raise"

Col(w, c) == [k \in 1..Len(w) |-> w[k][c]]

\* t = xp.ones_like(ts) * ts[-1]
StreamTime(t) == [k \in 1..Len(t) |-> t[Len(t)]]

\* A variant of AssembleQ with the two arms in the other order.
AssembleQSwapped(trail_w, lead_w) == interleave_concat(Col(lead_w, 1), Col(trail_w, 1))

\* q = interleave_concat(trail_arm_w[:, 0:3], lead_arm_w[:, 0:3], axis=axis)
AssembleQ(trail_w, lead_w) == interleave_concat(Col(trail_w, 1), Col(lead_w, 1))
\* p = interleave_concat(trail_arm_w[:, 3:6], lead_arm_w[:, 3:6], axis=axis)
AssembleP(trail_w, lead_w) == interleave_concat(Col(trail_w, 2), Col(lead_w, 2))
\* A variant of AssembleReleaseTime that keeps the leading arm's times only.
AssembleReleaseTimeLeadOnly(lead, trail) == lead.release_time

\* release_time = interleave_concat(mock0_lead.release_time,
\*                                  mock0_trail.release_time, axis=0)
AssembleReleaseTime(lead, trail) ==
    interleave_concat(lead.release_time, trail.release_time)

Assemble ==
    /\ pc = "integrated"
    /\ LET sel == ArmSelection(df_lead, df_trail)
           t == StreamTime(ts)
       IN IF sel = "raise"
          THEN /\ pc' = "error"
               /\ err' = "You must generate either leading or trailing tails (or both!)"
               /\ UNCHANGED <<stream, ret_orbit>>
          ELSE /\ pc' = "done"
               /\ stream' =
                    IF sel = "both"
                    THEN [q |-> AssembleQ(trail_arm_w, lead_arm_w),
                          p |-> AssembleP(trail_arm_w, lead_arm_w),
                          t |-> interleave_concat(t, t),
                          release_time |-> AssembleReleaseTime(mock0_lead, mock0_trail)]
                    ELSE IF sel = "lead"
                    THEN [q |-> Col(lead_arm_w, 1), p |-> Col(lead_arm_w, 2),
                          t |-> t, release_time |-> mock0_lead.release_time]
                    ELSE [q |-> Col(trail_arm_w, 1), p |-> Col(trail_arm_w, 2),
                          t |-> t, release_time |-> mock0_trail.release_time]
               /\ ret_orbit' = prog_o
               /\ UNCHANGED err
    /\ UNCHANGED <<sample_calls, df_lead, df_trail, vmapped, platform, ts_in, prog_kind,
                   prog_ndim, prog_t, use_vmap, w0_t, ts, prog_o, mock0_lead,
                   mock0_trail, carry, scan_k, reads, lead_arm_w, trail_arm_w,
                   starts, t_end, strategy>>

(***************************************************************************)
(* CompositePotential: an insertion-ordered mapping from key to potential, *)
(* held as a sequence of <<key, potential>> items with distinct keys.      *)
(***************************************************************************)
MaxComp == 2       \* most components of a composite operand
MaxUuid == 2       \* most keys drawn from uuid.uuid4() in one behaviour

\* The single (non-composite) potentials at hand, their unit systems and
\* their energies at (q, t).
Pots == {"kep1", "kep2", "hern"}
UnitsOf(p) == IF p = "hern" THEN "solarsystem" ELSE "galactic"
Mass(p) == CASE p = "kep1" -> 1 [] p = "kep2" -> 2 [] OTHER -> 4
SingleEnergy(p, q, t) == Mass(p) * (q + 1) + t

Names == {<<"name", "disk">>, <<"name", "halo">>}
Uuids == {<<"uuid", n>> : n \in 1..MaxUuid}
EnergyPoints == {<<0, 0>>, <<1, 2>>}

Keys(d) == {d[k][1] : k \in 1..Len(d)}
DistinctKeys(d) == \A a, b \in 1..Len(d) : d[a][1] = d[b][1] => a = b
Lookup(d, key) == d[CHOOSE k \in 1..Len(d) : d[k][1] = key][2]

RECURSIVE SumSeq(_)
SumSeq(s) == IF s = <<>> THEN 0 ELSE s[1] + SumSeq(Tail(s))

RECURSIVE Filter(_, _)
Filter(d, drop) ==
    IF d = <<>> THEN <<>>
    ELSE IF d[1][1] \in drop THEN Filter(Tail(d), drop)
    ELSE <<d[1]>> \o Filter(Tail(d), drop)

\* dict.__or__: the left operand's keys in their order, a shared key taking
\* the right operand's value, then the right operand's new keys in order.
DictUnion(d1, d2) ==
    [k \in 1..Len(d1) |->
        IF d1[k][1] \in Keys(d2) THEN <<d1[k][1], Lookup(d2, d1[k][1])>> ELSE d1[k]]
    \o Filter(d2, Keys(d1))

Single(p) == [kind |-> "single", data |-> <<<<<<"self", "">>, p>>>>, units |-> UnitsOf(p)]
Composite(d, u) == [kind |-> "composite", data |-> d, units |-> u]
NotAPotential == [kind |-> "other", data |-> <<>>, units |-> ""]
NoPot == [kind |-> "none", data |-> <<>>, units |-> ""]
Raised(e) == [kind |-> e, data |-> <<>>, units |-> ""]
\* The mapping handed to CompositePotential(...)
Mapping(d) == [kind |-> "mapping", data |-> d, units |-> ""]

IsPotential(x) == x.kind \in {"single", "composite"}

CompositeData ==
    {d \in UNION {[1..n -> Names \X Pots] : n \in 1..MaxComp} : DistinctKeys(d)}
\* A variant of CompositePotential that compares no unit systems.
CompositePotentialUnchecked(d) ==
    IF d = <<>> THEN Raised("StopIteration") ELSE Composite(d, UnitsOf(d[1][2]))

\* CompositePotential.__init__ / __post_init__
CompositePotential(d) ==
    IF d = <<>> THEN Raised("StopIteration")
    ELSE LET units == UnitsOf(d[1][2])
         IN IF \E k \in 1..Len(d) : UnitsOf(d[k][2]) # units
            THEN Raised("ValueError")
            ELSE Composite(d, units)

\* Composites that CompositePotential.__init__ accepts.
Composites ==
    {Composite(d, UnitsOf(d[1][2])) : d \in {e \in CompositeData :
        \A k \in 1..Len(e) : UnitsOf(e[k][2]) = UnitsOf(e[1][2])}}
Operands == Composites \cup {Single(p) : p \in Pots} \cup {NotAPotential}

\* A variant of AsDict that files every single potential under one key.
AsDictFixedKey(other, uuid) ==
    IF other.kind = "composite" THEN other.data
    ELSE <<<<<<"uuid", 1>>, other.data[1][2]>>>>

\* make `other` into a compatible dictionary
AsDict(other, uuid) ==
    IF other.kind = "composite" THEN other.data ELSE <<<<uuid, other.data[1][2]>>>>

\* A variant of Or that hands back self for an operand it cannot combine.
OrReturnsSelf(self, other, uuid) ==
    IF ~IsPotential(other) THEN self
    ELSE CompositePotential(DictUnion(self.data, AsDict(other, uuid)))

\* CompositePotential.__or__
Or(self, other, uuid) ==
    IF ~IsPotential(other) THEN Raised("NotImplemented")
    ELSE CompositePotential(DictUnion(self.data, AsDict(other, uuid)))

\* CompositePotential.__ror__
Ror(self, other, uuid) ==
    IF ~IsPotential(other) THEN Raised("NotImplemented")
    ELSE CompositePotential(DictUnion(AsDict(other, uuid), self.data))

\* The binary operator protocol: a method that returns NotImplemented, with
\* no reflected method of the other operand to take over, is a TypeError.
Operator(r) == IF r.kind = "NotImplemented" THEN Raised("TypeError") ELSE r

\* CompositePotential.__add__: return self | other
Add(self, other, uuid) == Operator(Or(self, other, uuid))

\* CompositePotential.potential_energy, and the energy of any operand
potential_energy(c, q, t) ==
    SumSeq([k \in 1..Len(c.data) |-> SingleEnergy(c.data[k][2], q, t)])

UsesUuid(other) == other.kind = "single"

\* CompositePotential(d)
Construct ==
    /\ pc = "idle"
    /\ lastop = "none"
    /\ used = {}
    /\ \E d \in CompositeData :
          /\ potA' = Mapping(d)
          /\ result' = CompositePotential(d)
    /\ potB' = NoPot
    /\ lastop' = "init"
    /\ UNCHANGED used

\* potA | potB
OrExpr ==
    /\ pc = "idle"
    /\ lastop = "none"
    /\ potA.kind = "composite"
    /\ \E u \in Uuids \ used :
          /\ result' = Operator(Or(potA, potB, u))
          /\ used' = IF UsesUuid(potB) THEN used \cup {u} ELSE used
    /\ lastop' = "or"
    /\ UNCHANGED <<potA, potB>>

\* potB | potA, with potB's own __or__ declining
RorExpr ==
    /\ pc = "idle"
    /\ lastop = "none"
    /\ potA.kind = "composite"
    /\ \E u \in Uuids \ used :
          /\ result' = Operator(Ror(potA, potB, u))
          /\ used' = IF UsesUuid(potB) THEN used \cup {u} ELSE used
    /\ lastop' = "ror"
    /\ UNCHANGED <<potA, potB>>

\* potA + potB
AddExpr ==
    /\ pc = "idle"
    /\ lastop = "none"
    /\ potA.kind = "composite"
    /\ \E u \in Uuids \ used :
          /\ result' = Add(potA, potB, u)
          /\ used' = IF UsesUuid(potB) THEN used \cup {u} ELSE used
    /\ lastop' = "add"
    /\ UNCHANGED <<potA, potB>>

\* The result becomes the left operand of a further composition.
Chain ==
    /\ pc = "idle"
    /\ lastop # "none"
    /\ result.kind = "composite"
    /\ used # Uuids
    /\ potA' = result
    /\ potB' \in Operands
    /\ result' = NoPot
    /\ lastop' = "none"
    /\ UNCHANGED used

\* No parameter is at hand.
(***************************************************************************)
(* Parameters: galax/potential/_src/params/core.py and the earlier         *)
(* galdynamix/potential/_potential/param/core.py                           *)
(***************************************************************************)
MaxVal == 2        \* entries of parameter values live in -1..MaxVal

\* An array is its shape and its entries in row-major order.
Prod(shape) == IF shape = <<>> THEN 1 ELSE IF Len(shape) = 1 THEN shape[1]
               ELSE shape[1] * shape[2]
Arrays(shapes, entries) ==
    UNION {{[shape |-> sh, data |-> d] : d \in [1..Prod(sh) -> entries]} :
           sh \in shapes}
ParVals == -1..MaxVal
Values == Arrays({<<>>, <<2>>}, ParVals)
\* Time arguments: a scalar, a batch, a batch of batches.
TimeArgs == Arrays({<<>>, <<2>>, <<1, 2>>}, Times)
Slopes == -1..1
Factors == {-1, 0, 2}
Ones(n) == [k \in 1..n |-> 1]
\* Entries a rescaled parameter may have and still be rescaled again.
RebindVals == (-2 * MaxVal)..(2 * MaxVal)

\* galax.utils._shape.expand_batch_dims(arr, ndim)
expand_batch_dims(arr, ndim) ==
    [shape |-> Ones(ndim) \o arr.shape, data |-> arr.data]

ConstantParameter(v) == [cls |-> "galax.ConstantParameter", value |-> v]
GdxConstantParameter(v) == [cls |-> "galdynamix.ConstantParameter", value |-> v]
LinearParameter(m, t0, v0) ==
    [cls |-> "LinearParameter", slope |-> m, point_time |-> t0, point_value |-> v0]
ConstantClasses == {"galax.ConstantParameter", "galdynamix.ConstantParameter"}
Params ==
    {ConstantParameter(v) : v \in Values}
    \cup {GdxConstantParameter(v) : v \in Values}
    \cup {LinearParameter(m, t0, v0) : m \in Slopes, t0 \in Times, v0 \in ParVals}

\* galax ConstantParameter.__call__
ConstantParameter_call(self, t) == expand_batch_dims(self.value, Len(t.shape))

\* galdynamix ConstantParameter.__call__
GdxConstantParameter_call(self, t) == self.value

\* A variant of LinearParameter.__call__ that measures time from zero.
LinearParameter_callFromZero(self, t) ==
    [shape |-> t.shape,
     data |-> [i \in 1..Len(t.data) |-> self.slope * t.data[i] + self.point_value]]

\* LinearParameter.__call__
LinearParameter_call(self, t) ==
    [shape |-> t.shape,
     data |-> [i \in 1..Len(t.data) |->
                 self.slope * (t.data[i] - self.point_time) + self.point_value]]

\* ConstantParameter.__mul__
Mul(self, other) ==
    [self EXCEPT !.value =
        [shape |-> self.value.shape,
         data |-> [i \in 1..Len(self.value.data) |-> self.value.data[i] * other]]]

\* ConstantParameter.__rmul__
RMul(self, other) ==
    [self EXCEPT !.value =
        [shape |-> self.value.shape,
         data |-> [i \in 1..Len(self.value.data) |-> other * self.value.data[i]]]]

\* par(t)
CallExpr ==
    /\ par_op = "none"
    /\ par.cls # "none"
    /\ \E t \in TimeArgs :
          /\ par_arg' = t
          /\ par_res' = IF par.cls = "galax.ConstantParameter"
                        THEN ConstantParameter_call(par, t)
                        ELSE IF par.cls = "galdynamix.ConstantParameter"
                        THEN GdxConstantParameter_call(par, t)
                        ELSE LinearParameter_call(par, t)
    /\ par_op' = "call"
    /\ UNCHANGED par

\* A variant of par * k that rescales par itself.
MulExprInPlace ==
    /\ par_op = "none"
    /\ par.cls = "galax.ConstantParameter"
    /\ \E k \in Factors :
          /\ par_arg' = k
          /\ par_res' = Mul(par, k)
          /\ par' = Mul(par, k)
    /\ par_op' = "mul"

\* par * k
MulExpr ==
    /\ par_op = "none"
    /\ par.cls = "galax.ConstantParameter"
    /\ \E k \in Factors :
          /\ par_arg' = k
          /\ par_res' = Mul(par, k)
    /\ par_op' = "mul"
    /\ UNCHANGED par

\* k * par, with k's own __mul__ declining
RMulExpr ==
    /\ par_op = "none"
    /\ par.cls = "galax.ConstantParameter"
    /\ \E k \in Factors :
          /\ par_arg' = k
          /\ par_res' = RMul(par, k)
    /\ par_op' = "rmul"
    /\ UNCHANGED par

\* The rescaled parameter is used in its turn.
Rebind ==
    /\ par_op \in {"mul", "rmul"}
    /\ \A i \in 1..Len(par_res.value.data) : par_res.value.data[i] \in RebindVals
    /\ par' = par_res
    /\ par_op' = "none"
    /\ par_arg' = <<>>
    /\ par_res' = <<>>

(***************************************************************************)
(* Composite phase-space positions:                                        *)
(* galax/coordinates/_src/psps/base_composite.py                           *)
(***************************************************************************)
MaxPsp == 3        \* most components of a composite phase-space position
MaxBatch == 2      \* largest leading batch axis of a component

\* Batch shapes of the components: scalar, a batch of 0..MaxBatch, a grid.
PspShapes == {<<>>} \cup {<<n>> : n \in 0..MaxBatch} \cup {<<MaxBatch, 1>>}
\* The mapping name -> component, as the insertion-ordered items
\* <<name, batch shape of the component>>.
CompositePsps ==
    UNION {{[k \in 1..n |-> <<<<"w", k>>, sh[k]>>] : sh \in [1..n -> PspShapes]} :
           n \in 0..MaxPsp}

\* len(w) of one component: its leading batch axis, 0 for a scalar
PspLen(shape) == IF shape = <<>> THEN 0 ELSE shape[1]

\* `x or 1`
OrOne(x) == IF x = 0 THEN 1 ELSE x

\* A variant of __len__ that adds the components' lengths as they are.
CompositeLenPlain(c) == SumSeq([k \in 1..Len(c) |-> PspLen(c[k][2])])

\* AbstractCompositePhaseSpacePosition.__len__
CompositeLen(c) == SumSeq([k \in 1..Len(c) |-> OrOne(PspLen(c[k][2]))])

\* len(cpsp)
LenExpr ==
    /\ psp_op = "none"
    /\ psp_res' = CompositeLen(cpsp)
    /\ psp_op' = "len"
    /\ UNCHANGED <<cpsp, psp_arg>>

\* jnp.broadcast_shapes: shapes are aligned at their last axis; two axes
\* agree when they are equal or one of them is 1.
Incompatible == <<-1>>
BroadcastAxis(a, b) == IF a = b THEN a ELSE IF a = 1 THEN b ELSE IF b = 1 THEN a ELSE -1
BroadcastTwo(s1, s2) ==
    IF s1 = Incompatible \/ s2 = Incompatible THEN Incompatible
    ELSE LET n == Max2(Len(s1), Len(s2))
             p1 == Ones(n - Len(s1)) \o s1
             p2 == Ones(n - Len(s2)) \o s2
             r == [k \in 1..n |-> BroadcastAxis(p1[k], p2[k])]
         IN IF \E k \in 1..n : r[k] = -1 THEN Incompatible ELSE r
RECURSIVE broadcast_shapes(_)
broadcast_shapes(shapes) ==
    IF shapes = <<>> THEN <<>>
    ELSE BroadcastTwo(shapes[1], broadcast_shapes(Tail(shapes)))

PspRaised(e) == [kind |-> e, data |-> <<>>]

\* AbstractCompositePhaseSpacePosition._shape_tuple[0], the batch shape
shape_tuple(c) ==
    LET batch_shape == broadcast_shapes([k \in 1..Len(c) |-> c[k][2]])
    IN IF batch_shape = Incompatible THEN PspRaised("ValueError")
       ELSE IF batch_shape = <<>>
       THEN [kind |-> "shape", data |-> <<CompositeLen(c)>>]
       ELSE [kind |-> "shape",
             data |-> SubSeq(batch_shape, 1, Len(batch_shape) - 1)
                      \o <<Len(c) * batch_shape[Len(batch_shape)]>>]

\* cpsp._shape_tuple, of a composite that has a first component
ShapeExpr ==
    /\ psp_op = "none"
    /\ cpsp # <<>>
    /\ psp_res' = shape_tuple(cpsp)
    /\ psp_op' = "shape"
    /\ UNCHANGED <<cpsp, psp_arg>>

\* The keyword arguments of replace, as the items <<name, component>> in
\* the order given: names of components, a name no composite has, and the
\* empty string.
EmptyKey == <<"", 0>>
ReplaceKeys == {<<"w", 1>>, <<"w", 2>>, <<"w", MaxPsp + 1>>, EmptyKey}
ReplaceShapes == {<<>>, <<1>>}
ReplaceItems == {<<k, sh>> : k \in ReplaceKeys, sh \in ReplaceShapes}
Kwargs ==
    {<<a>> : a \in ReplaceItems}
    \cup {kw \in ReplaceItems \X ReplaceItems : kw[1][1] # kw[2][1]}

\* any(extra_keys): whether some element of the set is truthy; a string is
\* truthy unless it is empty.
AnyTruthy(keys) == \E k \in keys : k # EmptyKey

\* replace(obj, **kwargs)
replace(obj, kwargs) ==
    LET extra_keys == Keys(kwargs) \ Keys(obj)
    IN IF AnyTruthy(extra_keys) THEN PspRaised("RuntimeError")
       ELSE [kind |-> "composite", data |-> DictUnion(obj, kwargs)]

\* replace(cpsp, **kwargs)
ReplaceExpr ==
    /\ psp_op = "none"
    /\ \E kw \in Kwargs :
          /\ psp_arg' = kw
          /\ psp_res' = replace(cpsp, kw)
    /\ psp_op' = "replace"
    /\ UNCHANGED cpsp

(***************************************************************************)
(* ConstantRotationZOperator: galax/coordinates/_src/operators/rotating.py *)
(* Angles are counted in quarter turns, where sine and cosine are exact.   *)
(***************************************************************************)
MaxOmega == 2      \* angular speeds live in -MaxOmega..MaxOmega

Omegas == (-MaxOmega)..MaxOmega
QCoords == -1..1
Positions == {<<x, y, z>> : x \in QCoords, y \in QCoords, z \in QCoords}

\* jnp.cos and jnp.sin of theta quarter turns
Cos(theta) == CASE theta % 4 = 0 -> 1 [] theta % 4 = 2 -> -1 [] OTHER -> 0
Sin(theta) == CASE theta % 4 = 1 -> 1 [] theta % 4 = 3 -> -1 [] OTHER -> 0

\* rot_z(theta)
rot_z(theta) ==
    << <<Cos(theta), -Sin(theta), 0>>,
       <<Sin(theta), Cos(theta), 0>>,
       <<0, 0, 1>> >>

\* vec_matmul(Rz, q)
vec_matmul(m, q) == [r \in 1..3 |-> m[r][1] * q[1] + m[r][2] * q[2] + m[r][3] * q[3]]

ConstantRotationZOperator(Omega_z) == [Omega_z |-> Omega_z]

\* A variant of inverse that keeps the sense of rotation.
inverseSameSense(self) == ConstantRotationZOperator(self.Omega_z)

\* ConstantRotationZOperator.inverse
inverse(self) == ConstantRotationZOperator(-self.Omega_z)

\* ConstantRotationZOperator.__call__(q, t)
Rotate(self, q, t) == <<vec_matmul(rot_z(self.Omega_z * t), q), t>>

\* op(q, t)
ApplyOp ==
    /\ rot_stage = "none"
    /\ rot_fwd' = Rotate(ConstantRotationZOperator(rot_omega), rot_q, rot_t)
    /\ rot_stage' = "applied"
    /\ UNCHANGED <<rot_omega, rot_q, rot_t, rot_back, rot_inv2>>

\* op.inverse(*op(q, t)), and op.inverse.inverse
ApplyInverse ==
    /\ rot_stage = "applied"
    /\ LET op == ConstantRotationZOperator(rot_omega)
       IN /\ rot_back' = Rotate(inverse(op), rot_fwd[1], rot_fwd[2])
          /\ rot_inv2' = inverse(inverse(op))
    /\ rot_stage' = "inverted"
    /\ UNCHANGED <<rot_omega, rot_q, rot_t, rot_fwd>>

\* No operator is being applied.
RotIdle ==
    /\ rot_omega = 0
    /\ rot_q = <<>>
    /\ rot_t = 0
    /\ rot_stage = "none"
    /\ rot_fwd = <<>>
    /\ rot_back = <<>>
    /\ rot_inv2 = ConstantRotationZOperator(0)

ParIdle ==
    /\ par = [cls |-> "none"]
    /\ par_op = "none"
    /\ par_arg = <<>>
    /\ par_res = <<>>

\* No composite phase-space position is at hand.
PspIdle ==
    /\ cpsp = <<>>
    /\ psp_op = "none"
    /\ psp_arg = <<>>
    /\ psp_res = 0

PotIdle ==
    /\ potA = NoPot
    /\ potB = NoPot
    /\ result = NoPot
    /\ lastop = "none"
    /\ used = {}

\* No run of the generator is in progress.
MsIdle ==
    /\ df_lead = FALSE /\ df_trail = FALSE
    /\ vmapped = "None" /\ platform = "cpu"
    /\ ts_in = <<>> /\ prog_kind = "raw" /\ prog_ndim = 0 /\ prog_t = 0
    /\ pc = "idle" /\ err = ""
    /\ use_vmap = FALSE /\ w0_t = 0 /\ ts = <<>> /\ prog_o = <<>>
    /\ mock0_lead = NoMock /\ mock0_trail = NoMock
    /\ carry = NoCarry /\ scan_k = 0 /\ reads = {}
    /\ lead_arm_w = <<>> /\ trail_arm_w = <<>> /\ starts = <<>> /\ t_end = 0
    /\ strategy = <<>> /\ stream = NoStream /\ ret_orbit = <<>>
    /\ sample_calls = <<>>

Init ==
    /\ df_lead \in BOOLEAN
    /\ df_trail \in BOOLEAN
    /\ vmapped \in {"True", "False", "None"}
    /\ platform \in {"cpu", "gpu", "tpu"}
    /\ ts_in \in Grids
    /\ prog_kind \in {"timed", "untimed", "raw"}
    /\ prog_ndim \in {0, 1}
    /\ prog_t \in IF prog_kind = "timed" THEN {0, MaxTime} ELSE {0}
    /\ pc = "start"
    /\ err = ""
    /\ use_vmap = FALSE
    /\ w0_t = 0
    /\ ts = ts_in
    /\ prog_o = <<>>
    /\ mock0_lead = NoMock
    /\ mock0_trail = NoMock
    /\ carry = NoCarry
    /\ scan_k = 0
    /\ reads = {}
    /\ lead_arm_w = <<>>
    /\ trail_arm_w = <<>>
    /\ starts = <<>>
    /\ t_end = 0
    /\ strategy = <<>>
    /\ stream = NoStream
    /\ ret_orbit = <<>>
    /\ sample_calls = <<>>
    /\ PotIdle
    /\ ParIdle
    /\ PspIdle
    /\ RotIdle

Next ==
    \/ (Parse /\ UNCHANGED <<potvars, parvars, pspvars, rotvars>>)
    \/ (Normalize /\ UNCHANGED <<potvars, parvars, pspvars, rotvars>>)
    \/ (Orient /\ UNCHANGED <<potvars, parvars, pspvars, rotvars>>)
    \/ (IntegrateProgenitor /\ UNCHANGED <<potvars, parvars, pspvars, rotvars>>)
    \/ (Sample /\ UNCHANGED <<potvars, parvars, pspvars, rotvars>>)
    \/ (ScanInit /\ UNCHANGED <<potvars, parvars, pspvars, rotvars>>)
    \/ (ScanStep /\ UNCHANGED <<potvars, parvars, pspvars, rotvars>>)
    \/ (ScanReturn /\ UNCHANGED <<potvars, parvars, pspvars, rotvars>>)
    \/ (RunVmap /\ UNCHANGED <<potvars, parvars, pspvars, rotvars>>)
    \/ (Assemble /\ UNCHANGED <<potvars, parvars, pspvars, rotvars>>)

Spec == Init /\ [][Next]_vars

InitPot ==
    /\ MsIdle
    /\ RotIdle
    /\ ParIdle
    /\ PspIdle
    /\ potA \in Composites
    /\ potB \in Operands
    /\ result = NoPot
    /\ lastop = "none"
    /\ used = {}

NextPot ==
    \/ (Construct /\ UNCHANGED <<msvars, parvars, pspvars, rotvars>>)
    \/ (OrExpr /\ UNCHANGED <<msvars, parvars, pspvars, rotvars>>)
    \/ (RorExpr /\ UNCHANGED <<msvars, parvars, pspvars, rotvars>>)
    \/ (AddExpr /\ UNCHANGED <<msvars, parvars, pspvars, rotvars>>)
    \/ (Chain /\ UNCHANGED <<msvars, parvars, pspvars, rotvars>>)

SpecPot == InitPot /\ [][NextPot]_vars

InitParam ==
    /\ MsIdle
    /\ RotIdle
    /\ PotIdle
    /\ PspIdle
    /\ par \in Params
    /\ par_op = "none"
    /\ par_arg = <<>>
    /\ par_res = <<>>

NextParam ==
    \/ (CallExpr /\ UNCHANGED <<msvars, potvars, pspvars, rotvars>>)
    \/ (MulExpr /\ UNCHANGED <<msvars, potvars, pspvars, rotvars>>)
    \/ (RMulExpr /\ UNCHANGED <<msvars, potvars, pspvars, rotvars>>)
    \/ (Rebind /\ UNCHANGED <<msvars, potvars, pspvars, rotvars>>)

SpecParam == InitParam /\ [][NextParam]_vars

InitPsp ==
    /\ MsIdle
    /\ RotIdle
    /\ PotIdle
    /\ ParIdle
    /\ cpsp \in CompositePsps
    /\ psp_op = "none"
    /\ psp_arg = <<>>
    /\ psp_res = 0

NextPsp ==
    \/ (LenExpr /\ UNCHANGED <<msvars, potvars, parvars, rotvars>>)
    \/ (ShapeExpr /\ UNCHANGED <<msvars, potvars, parvars, rotvars>>)
    \/ (ReplaceExpr /\ UNCHANGED <<msvars, potvars, parvars, rotvars>>)

SpecPsp == InitPsp /\ [][NextPsp]_vars

InitRot ==
    /\ MsIdle
    /\ PotIdle
    /\ ParIdle
    /\ PspIdle
    /\ rot_omega \in Omegas
    /\ rot_q \in Positions
    /\ rot_t \in Times
    /\ rot_stage = "none"
    /\ rot_fwd = <<>>
    /\ rot_back = <<>>
    /\ rot_inv2 = ConstantRotationZOperator(0)

NextRot ==
    \/ (ApplyOp /\ UNCHANGED <<msvars, potvars, parvars, pspvars>>)
    \/ (ApplyInverse /\ UNCHANGED <<msvars, potvars, parvars, pspvars>>)

SpecRot == InitRot /\ [][NextRot]_vars

(***************************************************************************)
(* Properties of MockStreamGenerator.run                                   *)
(***************************************************************************)
ConfigMsg == "You must generate either leading or trailing tails (or both!)"
BothArms == df_lead /\ df_trail
NParticles == Len(mock0_lead.w)
PastNormalize ==
    pc \in {"normalized", "oriented", "progenitor", "sampled", "scan",
            "integrated", "done"}
PastProgenitor == pc \in {"progenitor", "sampled", "scan", "integrated", "done"}

\* C1: with both arms enabled, the returned stream holds at index 2k the
\* position and velocity of trailing particle k and at index 2k+1 those of
\* leading particle k, whichever strategy integrated the particles.
C1_Interleaving ==
    (pc = "done" /\ BothArms) =>
        /\ Len(stream.q) = 2 * NParticles
        /\ Len(stream.p) = 2 * NParticles
        /\ \A k \in 0..(NParticles - 1) :
              /\ stream.q[2 * k + 1] = trail_arm_w[k + 1][1]
              /\ stream.p[2 * k + 1] = trail_arm_w[k + 1][2]
              /\ stream.q[2 * k + 2] = lead_arm_w[k + 1][1]
              /\ stream.p[2 * k + 2] = lead_arm_w[k + 1][2]

C1_Witness ==
    /\ pc = "done" /\ BothArms
    /\ NParticles = MaxN
    /\ strategy = <<"scan">>
    /\ \A k \in 1..NParticles : lead_arm_w[k] # trail_arm_w[k]

\* C2: with both arms enabled, release_time[2k] is the sampler's release
\* time of trailing particle k and release_time[2k+1] that of leading
\* particle k.
C2_ReleaseTimeInterleaving ==
    (pc = "done" /\ BothArms) =>
        \A k \in 0..(NParticles - 1) :
            /\ stream.release_time[2 * k + 1] = mock0_trail.release_time[k + 1]
            /\ stream.release_time[2 * k + 2] = mock0_lead.release_time[k + 1]

\* C3: both strategies return, as entry k of each arm, the final state of
\* integrating that arm's initial condition k over [ts[k], ts[-1] + 1e-3],
\* in the same order.
C3_StrategyEquivalence ==
    pc \in {"integrated", "done"} =>
        /\ Len(lead_arm_w) = NParticles
        /\ Len(trail_arm_w) = NParticles
        /\ \A k \in 1..NParticles :
              /\ lead_arm_w[k] = Flow(mock0_lead.w[k], ts[k], ts[Len(ts)] + Eps)
              /\ trail_arm_w[k] = Flow(mock0_trail.w[k], ts[k], ts[Len(ts)] + Eps)

C3_Witness ==
    /\ pc = "integrated"
    /\ strategy = <<"scan">>
    /\ NParticles = MaxN
    /\ StrictlyIncreasing(ts)
    /\ lead_arm_w # mock0_lead.w

\* C4: a run whose sampler has neither arm enabled never returns a stream or
\* an orbit and, once its particles are integrated, ends in the
\* configuration error; that error is raised for no other combination of
\* the flags, and a run that returns has assembled a stream.
C4_NeitherArmFails ==
    /\ (~df_lead /\ ~df_trail) =>
          /\ pc # "done"
          /\ stream = NoStream
          /\ ret_orbit = <<>>
          /\ (pc = "error" /\ strategy # <<>>) => err = ConfigMsg
    /\ err = ConfigMsg => (~df_lead /\ ~df_trail /\ pc = "error")
    /\ (pc = "error" /\ strategy # <<>>) => (~df_lead /\ ~df_trail)
    /\ pc = "done" =>
          /\ stream # NoStream
          /\ Len(stream.q) = (IF BothArms THEN 2 ELSE 1) * NParticles
          /\ ret_orbit = prog_o

C4_Witness ==
    /\ pc = "error" /\ err = ConfigMsg
    /\ ~df_lead /\ ~df_trail
    /\ Len(lead_arm_w) = MaxN

\* C5: no run given a progenitor of non-scalar batch rank, in any of the
\* three input forms, proceeds past the normalisation of its input.
C5_BatchedProgenitorRejected ==
    PastNormalize => prog_ndim = 0

\* C6: no run proceeds to a progenitor orbit or to particle integration on
\* a time grid that is neither non-decreasing nor non-increasing; such a
\* run ends in InvalidTimeGrid.
C6_NonMonotonicRejected ==
    ~IsMonotonic(ts_in) =>
        /\ ~PastProgenitor
        /\ prog_o = <<>>
        /\ strategy = <<>>
        /\ stream = NoStream
        /\ pc = "error" => err \in {"InvalidTimeGrid", "prog_w0 must be scalar"}

C6_Witness ==
    /\ pc = "error" /\ err = "InvalidTimeGrid"
    /\ ts_in = <<0, 2, 1>>

\* C7: the orientation step reverses the grid exactly when
\* times[1] < times[0]; a strictly monotonic grid is strictly increasing
\* afterwards, and orienting that grid again changes nothing.
Oriented == pc \in {"oriented", "progenitor", "sampled", "scan", "integrated", "done"}
C7_Orientation ==
    /\ pc \in {"start", "parsed", "normalized"} => ts = ts_in
    /\ Oriented =>
          /\ ts = (IF ts_in[2] < ts_in[1] THEN Reverse(ts_in) ELSE ts_in)
          /\ (StrictlyIncreasing(ts_in) \/ StrictlyDecreasing(ts_in)) =>
                (StrictlyIncreasing(ts) /\ OrientGrid(ts) = ts)

C7_Witness ==
    /\ pc = "oriented"
    /\ Len(ts_in) = MaxN
    /\ StrictlyDecreasing(ts_in)
    /\ ts = Reverse(ts_in) /\ ts # ts_in

\* C8: vmapped = True runs the batched strategy and vmapped = False the
\* sequential one whatever the backend; vmapped = None runs the batched
\* strategy exactly on gpu; each run executes exactly one strategy.
C8_StrategySelection ==
    /\ Len(strategy) <= 1
    /\ pc \in {"scan", "integrated", "done"} => Len(strategy) = 1
    /\ strategy # <<>> =>
          /\ vmapped = "True" => strategy[1] = "vmap"
          /\ vmapped = "False" => strategy[1] = "scan"
          /\ vmapped = "None" => (strategy[1] = "vmap" <=> platform = "gpu")

C8_Witness ==
    /\ pc = "done"
    /\ vmapped = "None" /\ platform = "gpu"
    /\ strategy = <<"vmap">>

(***************************************************************************)
(* Properties of CompositePotential                                        *)
(***************************************************************************)
\* C9: (A + B).potential_energy(q, t) equals A.potential_energy(q, t) +
\* B.potential_energy(q, t), composites sharing a component name included.
C9_Additivity ==
    (lastop = "add" /\ result.kind = "composite") =>
        \A pt \in EnergyPoints :
            potential_energy(result, pt[1], pt[2])
                = potential_energy(potA, pt[1], pt[2])
                    + potential_energy(potB, pt[1], pt[2])

\* C10: for composites A and B, A | B and A + B iterate A's items in A's
\* order followed by B's items in B's order, and B | A iterates B's items
\* before A's.
C10_KeyOrdering ==
    (result.kind = "composite" /\ potB.kind = "composite") =>
        /\ lastop \in {"or", "add"} => result.data = potA.data \o potB.data
        /\ lastop = "ror" => result.data = potB.data \o potA.data

\* The items handed to the constructor by the last operation; whether a
\* single potential's key is fresh does not change their unit systems.
Supplied ==
    IF lastop = "init" THEN potA.data
    ELSE IF lastop = "ror" THEN DictUnion(AsDict(potB, <<"uuid", 0>>), potA.data)
    ELSE DictUnion(potA.data, AsDict(potB, <<"uuid", 0>>))
MixedUnits(d) == \E a, b \in 1..Len(d) : UnitsOf(d[a][2]) # UnitsOf(d[b][2])
UniformUnits(c) ==
    /\ c.units = UnitsOf(c.data[1][2])
    /\ \A k \in 1..Len(c.data) : UnitsOf(c.data[k][2]) = c.units

C12_SingleInserted ==
    (lastop \in {"or", "ror", "add"} /\ potB.kind = "single"
        /\ potB.units = potA.units) =>
        LET n == Len(potA.data)
            new == IF lastop = "ror" THEN result.data[1] ELSE result.data[n + 1]
            kept == IF lastop = "ror" THEN SubSeq(result.data, 2, n + 1)
                    ELSE SubSeq(result.data, 1, n)
        IN /\ result.kind = "composite"
           /\ Len(result.data) = n + 1
           /\ new[2] = potB.data[1][2]
           /\ new[1][1] = "uuid"
           /\ new[1] \notin Keys(potA.data)
           /\ kept = potA.data

C12_Witness ==
    /\ lastop = "or"
    /\ potB.kind = "single"
    /\ result.kind = "composite"
    /\ Len(potA.data) >= 2
    /\ \E k \in Keys(potA.data) : k[1] = "uuid"

\* C13: with an operand that is no potential, pot | x, x | pot and pot + x
\* each end in an error and yield no composite.
C13_NonPotentialOperand ==
    (lastop \in {"or", "ror", "add"} /\ potB = NotAPotential) =>
        result = Raised("TypeError")

C13_Witness ==
    /\ lastop = "add"
    /\ potB = NotAPotential
    /\ result = Raised("TypeError")

\* C14: a ConstantParameter called at any time argument returns its value
\* with the entries unchanged and one singleton axis added per batch axis
\* of the time argument, whatever the times are.
C14_ConstantBroadcast ==
    (par_op = "call" /\ par.cls \in ConstantClasses) =>
        /\ par_res.data = par.value.data
        /\ par_res.shape = Ones(Len(par_arg.shape)) \o par.value.shape

\* C15: LinearParameter(slope=m, point_time=t0, point_value=v0) returns v0
\* at t0 and v0 + m*dt at t0 + dt, entry by entry of the time argument.
C15_PointSlope ==
    (par_op = "call" /\ par.cls = "LinearParameter") =>
        /\ par_res.shape = par_arg.shape
        /\ \A i \in 1..Len(par_arg.data) :
              LET dt == par_arg.data[i] - par.point_time
              IN /\ par_res.data[i] = par.point_value + par.slope * dt
                 /\ dt = 0 => par_res.data[i] = par.point_value

C15_Witness ==
    /\ par_op = "call"
    /\ par.cls = "LinearParameter"
    /\ par.slope # 0
    /\ par.point_time # 0
    /\ par_arg.shape = <<2>>
    /\ par_arg.data[1] = par.point_time
    /\ par_arg.data[2] # par.point_time
    /\ par_res.data[1] = par.point_value
    /\ par_res.data[2] # par.point_value

\* C16: p * k and k * p each return a ConstantParameter whose value is
\* p.value times k and leave p as it was; both orders give the same value.
C16_RescaleReturnsNew ==
    [][(par_op = "none" /\ par_op' \in {"mul", "rmul"}) =>
        /\ par' = par
        /\ par_res'.cls = "galax.ConstantParameter"
        /\ par_res'.value.shape = par.value.shape
        /\ \A i \in 1..Len(par.value.data) :
              par_res'.value.data[i] = par.value.data[i] * par_arg'
        /\ Mul(par, par_arg') = RMul(par, par_arg')]_vars

C16_Witness ==
    /\ par_op = "rmul"
    /\ par_arg = 2
    /\ par.value.shape = <<2>>
    /\ par.value.data = <<1, -1>>
    /\ par_res.value.data = <<2, -2>>

\* C17: the length of a composite phase-space position is the sum of its
\* components' lengths with a length of 0 counted as 1; m scalar components
\* give length m.
C17_CompositeLength ==
    psp_op = "len" =>
        LET n == Len(cpsp)
            counted == [k \in 1..n |->
                          IF cpsp[k][2] = <<>> THEN 1
                          ELSE IF cpsp[k][2][1] = 0 THEN 1
                          ELSE cpsp[k][2][1]]
        IN /\ psp_res = SumSeq(counted)
           /\ (\A k \in 1..n : cpsp[k][2] = <<>>) => psp_res = n

C17_Witness ==
    /\ psp_op = "len"
    /\ Len(cpsp) = 3
    /\ cpsp[1][2] = <<>>
    /\ cpsp[2][2] = <<2>>
    /\ cpsp[3][2] = <<>>
    /\ psp_res = 4

\* C18: a generator whose df has neither arm enabled never reaches the
\* progenitor integration, the sampling or the particle integration.
C18_EagerConfigError ==
    (~df_lead /\ ~df_trail) =>
        /\ pc \notin {"progenitor", "sampled", "scan", "integrated"}
        /\ prog_o = <<>>
        /\ sample_calls = <<>>
        /\ starts = <<>>

\* C19: the progenitor orbit is integrated over the oriented grid first,
\* then df.sample is invoked exactly once, with that orbit, then the
\* particles are integrated, then the output is assembled; the returned
\* orbit is the one the sampler was given.
BeforeProgenitor == pc \in {"start", "parsed", "normalized", "oriented"}
AfterSample == pc \in {"sampled", "scan", "integrated", "done"}
C19_StageOrdering ==
    /\ Len(sample_calls) <= 1
    /\ BeforeProgenitor => prog_o = <<>>
    /\ (BeforeProgenitor \/ pc = "progenitor") =>
          /\ sample_calls = <<>>
          /\ mock0_lead = NoMock
          /\ mock0_trail = NoMock
    /\ prog_o # <<>> =>
          prog_o = [k \in 1..Len(ts) |-> Flow(ProgW, w0_t, ts[k])]
    /\ sample_calls # <<>> => (prog_o # <<>> /\ sample_calls[1] = prog_o)
    /\ AfterSample => Len(sample_calls) = 1
    /\ (starts # <<>> \/ lead_arm_w # <<>> \/ trail_arm_w # <<>>) =>
          Len(sample_calls) = 1
    /\ pc \in {"progenitor", "sampled"} =>
          (starts = <<>> /\ lead_arm_w = <<>> /\ trail_arm_w = <<>>)
    /\ pc # "done" => (stream = NoStream /\ ret_orbit = <<>>)
    /\ pc = "done" =>
          /\ Len(lead_arm_w) = Len(prog_o)
          /\ Len(trail_arm_w) = Len(prog_o)
          /\ stream # NoStream
          /\ ret_orbit = sample_calls[1]

C19_Witness ==
    /\ pc = "done"
    /\ Len(sample_calls) = 1
    /\ ret_orbit = sample_calls[1]
    /\ Len(ret_orbit) = 3
    /\ ts # ts_in

\* C20: under either strategy particle k of each arm is integrated from its
\* own release time to the final time of the oriented grid plus epsilon.
C20_StartsAtReleaseTime ==
    pc \in {"integrated", "done"} =>
        /\ Len(starts) = Len(mock0_lead.release_time)
        /\ \A k \in 1..Len(starts) :
              /\ starts[k] = mock0_lead.release_time[k]
              /\ starts[k] = mock0_trail.release_time[k]
        /\ t_end = ts[Len(ts)] + Eps

\* C21: every particle's integration window [ts[k], ts[-1] + 1e-3] on a
\* grid the run accepts has its start strictly before its end.
C21_WindowNonEmpty ==
    pc \in {"scan", "integrated", "done"} =>
        \A k \in 1..Len(starts) : starts[k] < t_end

\* C22: an un-timed or raw progenitor gets the first time of the grid as
\* supplied, which after the reversal of a decreasing grid is the last time
\* of the oriented grid; a timed progenitor keeps its own time.
C22_ProgenitorTime ==
    PastNormalize =>
        /\ prog_kind = "timed" => w0_t = prog_t
        /\ prog_kind # "timed" => w0_t = ts_in[1]
        /\ (prog_kind # "timed" /\ pc # "normalized" /\ ts_in[2] < ts_in[1]) =>
              (ts = Reverse(ts_in) /\ w0_t = ts[Len(ts)])

C22_Witness ==
    /\ pc = "done"
    /\ prog_kind = "untimed"
    /\ StrictlyDecreasing(ts_in)
    /\ w0_t = ts[Len(ts)]
    /\ w0_t # ts[1]

\* C25: in _run_scan the carried index is k at the start of step k, and
\* every index used to read w0_lead and w0_trail, the look-ahead for the
\* next carry included, lies within 0..N-1.
C25_ScanIndexInRange ==
    (pc \in {"scan", "integrated", "done"} /\ ~use_vmap) =>
        /\ carry.i = scan_k
        /\ Len(starts) = scan_k
        /\ \A k \in 1..Len(starts) : starts[k] = ts[k]
        /\ \A i \in reads : 0 <= i /\ i <= NParticles - 1

\* C26: the evaluation time recorded on each particle of the returned
\* stream is the end time of the integration that produced the particle.
C26_EvaluationTime ==
    pc = "done" => \A k \in 1..Len(stream.t) : stream.t[k] = t_end

\* C27: q, p, t and release_time of the returned stream have one common
\* number of particles: 2N with both arms, N with one arm, whose q, p and
\* release_time are then the enabled arm's in stripping order.
C27_StreamShape ==
    pc = "done" =>
        LET n == Len(ts)
            m == IF BothArms THEN 2 * n ELSE n
            arm == IF df_lead THEN lead_arm_w ELSE trail_arm_w
            mock0 == IF df_lead THEN mock0_lead ELSE mock0_trail
        IN /\ NParticles = n
           /\ Len(stream.q) = m
           /\ Len(stream.p) = m
           /\ Len(stream.t) = m
           /\ Len(stream.release_time) = m
           /\ ~BothArms =>
                 /\ stream.q = [k \in 1..n |-> arm[k][1]]
                 /\ stream.p = [k \in 1..n |-> arm[k][2]]
                 /\ stream.release_time = mock0.release_time

C27_Witness ==
    /\ pc = "done"
    /\ BothArms
    /\ Len(ts) = 3
    /\ Len(stream.q) = 6
    /\ Len(stream.release_time) = 6

\* C23: replace on a composite phase-space position either has only names
\* of existing components and returns a composite with the same names in
\* the same order, the named components replaced and the others kept, or
\* has a name that is no component and fails.
C23_ReplaceKeepsKeys ==
    psp_op = "replace" =>
        IF \A j \in 1..Len(psp_arg) : \E k \in 1..Len(cpsp) : cpsp[k][1] = psp_arg[j][1]
        THEN /\ psp_res.kind = "composite"
             /\ Len(psp_res.data) = Len(cpsp)
             /\ \A k \in 1..Len(cpsp) :
                   /\ psp_res.data[k][1] = cpsp[k][1]
                   /\ \A j \in 1..Len(psp_arg) :
                         psp_arg[j][1] = cpsp[k][1] => psp_res.data[k][2] = psp_arg[j][2]
                   /\ (\A j \in 1..Len(psp_arg) : psp_arg[j][1] # cpsp[k][1]) =>
                         psp_res.data[k] = cpsp[k]
        ELSE psp_res.kind # "composite"

\* C28: for a composite whose components are scalar or have one batch
\* axis, the batch shape reported by _shape_tuple has as many elements as
\* len() of the composite.
C28_ShapeAgreesWithLen ==
    (psp_op = "shape" /\ \A k \in 1..Len(cpsp) : Len(cpsp[k][2]) <= 1) =>
        /\ psp_res.kind = "shape"
        /\ Len(psp_res.data) = 1
        /\ psp_res.data[1] = CompositeLen(cpsp)

\* C24: applying a ConstantRotationZOperator and then its inverse at the
\* same time returns the original position; both return the time unchanged
\* and leave the z component alone; op.inverse.inverse has op's Omega_z.
C24_RotationRoundTrip ==
    /\ rot_stage \in {"applied", "inverted"} =>
          /\ rot_fwd[2] = rot_t
          /\ rot_fwd[1][3] = rot_q[3]
    /\ rot_stage = "inverted" =>
          /\ rot_back[1] = rot_q
          /\ rot_back[2] = rot_t
          /\ rot_back[1][3] = rot_q[3]
          /\ rot_inv2.Omega_z = rot_omega

C24_Witness ==
    /\ rot_stage = "inverted"
    /\ rot_omega = 1
    /\ rot_t = 1
    /\ rot_q = <<1, 0, 1>>
    /\ rot_fwd = <<<<0, 1, 1>>, 1>>
    /\ rot_back = <<<<1, 0, 1>>, 1>>
====
